---- MODULE Spec2Model ----
(***************************************************************************)
(* The process and terminal-session supervisor of src-tauri/src/lib.rs:    *)
(* the pty session table (mod pty), the output relay thread started by     *)
(* spawn_pty, the OpenCode sidecar controller (start/stop/is_opencode_server_managed) and  *)
(* the window-destroyed hook of run().                                     *)
(*                                                                         *)
(* Commands are invoked on caller threads; a command that takes a mutex    *)
(* for a non-blocking critical section is one atomic step, a critical      *)
(* section that contains a blocking OS call (pty write, child wait) is     *)
(* split so that the lock is visibly held while the call is in progress.   *)
(* An Option<T> is modelled as a set with at most one element.             *)
(***************************************************************************)
EXTENDS Integers, Sequences, FiniteSets, TLC

----------------------------------------------------------------------------
(* Bounds of the model *)

\* number of pty processes the system runs (and so of session ids generated)
\* in Spec and SpecRelay
MaxCounter == 2
\* number of pty processes the system runs beyond MAX_PTY_SESSIONS in SpecCap
CapSlack == 1
\* number of clock advances
MaxTicks == 2
\* number of output chunks a pty process produces
MaxChunks == 2
\* number of sidecar processes the system runs
MaxSidecars == 2
\* number of ports callers pass to start
NumPorts == 2

----------------------------------------------------------------------------
(* Program constants *)

\* lib.rs:1239, in seconds
PTY_SESSION_TIMEOUT == 4 * 60 * 60
\* lib.rs:1241
MAX_PTY_SESSIONS == 10

----------------------------------------------------------------------------

\* the caller threads that invoke commands concurrently
Threads == {"t1", "t2"}

\* the clock advances in steps of half the timeout, so that ages below and
\* equal to PTY_SESSION_TIMEOUT occur, and ages above it from three ticks on
TickStep == PTY_SESSION_TIMEOUT \div 2

\* session ids callers pass to write/resize/kill: an id is not in the table
\* before it is generated and after it is removed
ArgIds == 1..MaxCounter

VARIABLES
    sessions,   \* PtyState.sessions: id n stands for "pty_n"
    counter,    \* PtyState.counter
    ptyLock,    \* holder of the SharedPtyState mutex ({} when free)
    now,        \* Instant::now(), in seconds
    pc,         \* per caller thread: where it is in its command
    op,         \* per caller thread: the command it last invoked
    arg,        \* per caller thread: session_id (pty commands) or port (sidecar)
    ret,        \* per caller thread: result of its last command
    loc,        \* per caller thread: locals of its command, kept with the
                \* result until the thread's next command
    ptyProcs,   \* pty child processes, by spawn order: "running" or "exited"
    relay,      \* reader threads, by session id: where the thread is, the
                \* number of chunks it has read, the process it reads from
    events,     \* notifications emitted per session id: k > 0 is the output
                \* notification of chunk k, 0 is the exit notification
    killed,     \* history: ids for which kill_pty returned Ok
    server_state, \* OpenCodeServerState: process and port
    scLock,     \* holder of the SharedOpenCodeServerState mutex ({} when free)
    scProcs,    \* sidecar processes, by spawn order (the pid): "running",
                \* "exited" (terminated, status not collected) or "reaped"
    hookPc      \* the window-destroyed hook: "idle", "wait" or "done"

ptyVars == <<sessions, counter, ptyLock, now, ptyProcs, relay, events, killed>>
scVars == <<server_state, scLock, scProcs, hookPc>>
thrVars == <<pc, op, arg, ret, loc>>
vars == <<sessions, counter, ptyLock, now, pc, op, arg, ret, loc, ptyProcs,
          relay, events, killed, server_state, scLock, scProcs, hookPc>>

\* locals of a command: the spawned child, the generated session id, the
\* tracked child a sidecar command kills (ref mut child of lib.rs:649), the
\* result of the poll of start_opencode_server (lib.rs:651) and of
\* is_opencode_server_managed (lib.rs:781), and as history
\* the ids its sweep removed, whether its session_id argument had already
\* been killed when it was invoked, the number of notifications the session
\* had when kill_pty removed it, and whether the processes of all sessions
\* had exited when the capacity check of spawn_pty rejected the call
NoLocals == [child |-> {}, session_id |-> {}, old |-> {}, polled |-> {},
             swept |-> {}, after_kill |-> FALSE, emitted |-> 0,
             all_exited |-> FALSE]

\* OpenCodeServerState::default
Absent == [process |-> {}, port |-> {}]

\* PtyState::default and the managed state of run()
Init ==
    /\ sessions = <<>>
    /\ counter = 0
    /\ ptyLock = {}
    /\ now = 0
    /\ pc = [t \in Threads |-> "idle"]
    /\ op = [t \in Threads |-> "none"]
    /\ arg = [t \in Threads |-> 0]
    /\ ret = [t \in Threads |-> "none"]
    /\ loc = [t \in Threads |-> NoLocals]
    /\ ptyProcs = <<>>
    /\ relay = <<>>
    /\ events = <<>>
    /\ killed = {}
    /\ server_state = Absent
    /\ scLock = {}
    /\ scProcs = <<>>
    /\ hookPc = "idle"

----------------------------------------------------------------------------
(* Session table: helpers *)

Remove(f, ids) == [i \in DOMAIN f \ ids |-> f[i]]

\* mutant: the age test is > instead of >=, a session of exactly the timeout stays
cleanup_expired_sessions_late(s, t) ==
    [id \in {i \in DOMAIN s : t - s[i].created_at <= PTY_SESSION_TIMEOUT} |-> s[id]]

\* PtyState::cleanup_expired_sessions: retain the sessions younger than the timeout
cleanup_expired_sessions(s, t) ==
    [id \in {i \in DOMAIN s : t - s[i].created_at < PTY_SESSION_TIMEOUT} |-> s[id]]

\* PtyState::can_create_session
can_create_session(s) == Cardinality(DOMAIN s) < MAX_PTY_SESSIONS

\* a command returns: the thread is idle again and holds the result
Return(t, r) ==
    /\ pc' = [pc EXCEPT ![t] = "idle"]
    /\ ret' = [ret EXCEPT ![t] = r]

Goto(t, p) ==
    /\ pc' = [pc EXCEPT ![t] = p]
    /\ ret' = ret

----------------------------------------------------------------------------
(* Invocation of the pty commands by the GUI layer *)

Invoke(t, o, a) ==
    /\ pc[t] = "idle"
    /\ pc' = [pc EXCEPT ![t] = o]
    /\ op' = [op EXCEPT ![t] = o]
    /\ arg' = [arg EXCEPT ![t] = a]
    /\ ret' = [ret EXCEPT ![t] = "none"]
    /\ loc' = [loc EXCEPT ![t] = NoLocals]

\* a command on a session id is invoked
InvokeOn(t, o, id) ==
    /\ pc[t] = "idle"
    /\ pc' = [pc EXCEPT ![t] = o]
    /\ op' = [op EXCEPT ![t] = o]
    /\ arg' = [arg EXCEPT ![t] = id]
    /\ ret' = [ret EXCEPT ![t] = "none"]
    /\ loc' = [loc EXCEPT ![t] = [NoLocals EXCEPT !.after_kill = (id \in killed)]]

invoke_spawn_pty(t) ==
    /\ Invoke(t, "spawn_pty", 0)
    /\ UNCHANGED ptyVars
    /\ UNCHANGED scVars

invoke_write_pty(t, ids) ==
    /\ \E id \in ids : InvokeOn(t, "write_pty", id)
    /\ UNCHANGED ptyVars
    /\ UNCHANGED scVars

invoke_resize_pty(t, ids) ==
    /\ \E id \in ids : InvokeOn(t, "resize_pty", id)
    /\ UNCHANGED ptyVars
    /\ UNCHANGED scVars

invoke_kill_pty(t, ids) ==
    /\ \E id \in ids : InvokeOn(t, "kill_pty", id)
    /\ UNCHANGED ptyVars
    /\ UNCHANGED scVars

----------------------------------------------------------------------------
(* spawn_pty *)

\* mutant: a create that finds the table full evicts the session with the
\* lowest id before it fails
spawn_pty_check_evict(t) ==
    /\ pc[t] = "spawn_pty"
    /\ ptyLock = {}
    /\ LET kept == cleanup_expired_sessions(sessions, now) IN
        /\ loc' = [loc EXCEPT ![t].swept = DOMAIN sessions \ DOMAIN kept]
        /\ IF can_create_session(kept)
             THEN /\ sessions' = kept
                  /\ Goto(t, "sp_open")
             ELSE /\ sessions' = Remove(kept, {CHOOSE i \in DOMAIN kept :
                                                  \A j \in DOMAIN kept : i <= j})
                  /\ Return(t, "CapacityExceeded")
    /\ UNCHANGED <<counter, ptyLock, now, op, arg, ptyProcs, relay, events, killed>>
    /\ UNCHANGED scVars

\* mutant: the guard of the capacity check is kept while the pty is opened
spawn_pty_check_locked(t) ==
    /\ pc[t] = "spawn_pty"
    /\ ptyLock = {}
    /\ LET kept == cleanup_expired_sessions(sessions, now) IN
        /\ sessions' = kept
        /\ loc' = [loc EXCEPT ![t].swept = DOMAIN sessions \ DOMAIN kept]
        /\ IF can_create_session(kept)
             THEN /\ ptyLock' = {t}
                  /\ Goto(t, "sp_open")
             ELSE /\ ptyLock' = ptyLock
                  /\ Return(t, "CapacityExceeded")
    /\ UNCHANGED <<counter, now, op, arg, ptyProcs, relay, events, killed>>
    /\ UNCHANGED scVars

\* mutant: the check drops the sessions whose process has exited before it
\* counts
spawn_pty_check_reap(t) ==
    /\ pc[t] = "spawn_pty"
    /\ ptyLock = {}
    /\ LET young == cleanup_expired_sessions(sessions, now)
           kept == Remove(young, {id \in DOMAIN young :
                                     ptyProcs[young[id].child] = "exited"})
       IN
        /\ sessions' = kept
        /\ loc' = [loc EXCEPT ![t].swept = DOMAIN sessions \ DOMAIN young]
        /\ IF can_create_session(kept)
             THEN Goto(t, "sp_open")
             ELSE Return(t, "CapacityExceeded")
    /\ UNCHANGED <<counter, ptyLock, now, op, arg, ptyProcs, relay, events, killed>>
    /\ UNCHANGED scVars

\* lib.rs:1291-1297: lock, sweep, capacity check, unlock; the check does
\* not look at the processes of the sessions (loc.all_exited is history)
spawn_pty_check(t) ==
    /\ pc[t] = "spawn_pty"
    /\ ptyLock = {}
    /\ LET kept == cleanup_expired_sessions(sessions, now) IN
        /\ sessions' = kept
        /\ IF can_create_session(kept)
             THEN /\ loc' = [loc EXCEPT ![t].swept = DOMAIN sessions \ DOMAIN kept]
                  /\ Goto(t, "sp_open")
             ELSE /\ loc' = [loc EXCEPT
                               ![t].swept = DOMAIN sessions \ DOMAIN kept,
                               ![t].all_exited =
                                   \A id \in DOMAIN kept :
                                       ptyProcs[kept[id].child] = "exited"]
                  /\ Return(t, "CapacityExceeded")
    /\ UNCHANGED <<counter, ptyLock, now, op, arg, ptyProcs, relay, events, killed>>
    /\ UNCHANGED scVars

\* mutant: the session id is generated before the pty is opened, a failure
\* leaves the counter advanced
spawn_pty_open_counted(t, outcomes, maxc) ==
    /\ pc[t] = "sp_open"
    /\ \E o \in outcomes :
        \/ /\ o = "ok"
           /\ Len(ptyProcs) < maxc
           /\ ptyProcs' = Append(ptyProcs, "running")
           /\ loc' = [loc EXCEPT ![t].child = {Len(ptyProcs) + 1}]
           /\ counter' = counter
           /\ Goto(t, "sp_id")
        \/ /\ o = "fail"
           /\ UNCHANGED <<ptyProcs, loc>>
           /\ counter' = counter + 1
           /\ Return(t, "SpawnFailed")
        \/ /\ o = "fail_late"
           /\ Len(ptyProcs) < maxc
           /\ ptyProcs' = Append(ptyProcs, "running")
           /\ loc' = [loc EXCEPT ![t].child = {Len(ptyProcs) + 1}]
           /\ counter' = counter + 1
           /\ Return(t, "SpawnFailed")
    /\ UNCHANGED <<sessions, ptyLock, now, op, arg, relay, events, killed>>
    /\ UNCHANGED scVars

\* mutant: a create reuses the child handle of the latest process instead
\* of spawning one
spawn_pty_open_shared(t, outcomes, maxc) ==
    /\ pc[t] = "sp_open"
    /\ \E o \in outcomes :
        \/ /\ o = "ok"
           /\ Len(ptyProcs) < maxc
           /\ IF ptyProcs = <<>>
                THEN /\ ptyProcs' = Append(ptyProcs, "running")
                     /\ loc' = [loc EXCEPT ![t].child = {1}]
                ELSE /\ ptyProcs' = ptyProcs
                     /\ loc' = [loc EXCEPT ![t].child = {Len(ptyProcs)}]
           /\ Goto(t, "sp_id")
        \/ /\ o = "fail"
           /\ UNCHANGED <<ptyProcs, loc>>
           /\ Return(t, "SpawnFailed")
        \/ /\ o = "fail_late"
           /\ Len(ptyProcs) < maxc
           /\ ptyProcs' = Append(ptyProcs, "running")
           /\ loc' = [loc EXCEPT ![t].child = {Len(ptyProcs) + 1}]
           /\ Return(t, "SpawnFailed")
    /\ UNCHANGED <<sessions, counter, ptyLock, now, op, arg, relay, events, killed>>
    /\ UNCHANGED scVars

\* lib.rs:1299-1337, no lock held: openpty and spawn_command, then
\* try_clone_reader and take_writer. "fail" is openpty or spawn_command
\* failing (no process), "fail_late" is the reader or the writer failing after
\* the command was spawned: the child was assigned (loc.child keeps it as
\* history), then the pair and the child are dropped. The system runs at most
\* maxc pty processes: further spawns fail.
spawn_pty_open(t, outcomes, maxc) ==
    /\ pc[t] = "sp_open"
    /\ \E o \in outcomes :
        \/ /\ o = "ok"
           /\ Len(ptyProcs) < maxc
           /\ ptyProcs' = Append(ptyProcs, "running")
           /\ loc' = [loc EXCEPT ![t].child = {Len(ptyProcs) + 1}]
           /\ Goto(t, "sp_id")
        \/ /\ o = "fail"
           /\ UNCHANGED <<ptyProcs, loc>>
           /\ Return(t, "SpawnFailed")
        \/ /\ o = "fail_late"
           /\ Len(ptyProcs) < maxc
           /\ ptyProcs' = Append(ptyProcs, "running")
           /\ loc' = [loc EXCEPT ![t].child = {Len(ptyProcs) + 1}]
           /\ Return(t, "SpawnFailed")
    /\ UNCHANGED <<sessions, counter, ptyLock, now, op, arg, relay, events, killed>>
    /\ UNCHANGED scVars

\* mutant: the id is derived from the size of the table instead of a counter
spawn_pty_id_reuse(t) ==
    /\ pc[t] = "sp_id"
    /\ ptyLock = {}
    /\ counter' = counter + 1
    /\ loc' = [loc EXCEPT ![t].session_id = {Cardinality(DOMAIN sessions) + 1}]
    /\ Goto(t, "sp_reader")
    /\ UNCHANGED <<sessions, ptyLock, now, op, arg, ptyProcs, relay, events, killed>>
    /\ UNCHANGED scVars

\* lib.rs:1340-1344: lock, counter += 1, format!("pty_{}", counter), unlock
spawn_pty_id(t) ==
    /\ pc[t] = "sp_id"
    /\ ptyLock = {}
    /\ counter' = counter + 1
    /\ loc' = [loc EXCEPT ![t].session_id = {counter + 1}]
    /\ Goto(t, "sp_reader")
    /\ UNCHANGED <<sessions, ptyLock, now, op, arg, ptyProcs, relay, events, killed>>
    /\ UNCHANGED scVars

\* lib.rs:1346-1369: thread::spawn of the reader thread, not awaited
spawn_pty_reader(t) ==
    /\ pc[t] = "sp_reader"
    /\ \E id \in loc[t].session_id, c \in loc[t].child :
        /\ relay' = relay @@ (id :> [pc |-> "read", chunk |-> 0, child |-> c])
        /\ events' = events @@ (id :> <<>>)
    /\ Goto(t, "sp_store")
    /\ UNCHANGED <<sessions, counter, ptyLock, now, op, arg, loc, ptyProcs, killed>>
    /\ UNCHANGED scVars

\* lib.rs:1372-1385: lock, insert the session with created_at = now, unlock, Ok(id)
spawn_pty_store(t) ==
    /\ pc[t] = "sp_store"
    /\ ptyLock = {}
    /\ \E id \in loc[t].session_id, c \in loc[t].child :
        sessions' = (id :> [child |-> c, created_at |-> now]) @@ sessions
    /\ Return(t, "Ok")
    /\ UNCHANGED <<counter, ptyLock, now, op, arg, loc, ptyProcs, relay, events, killed>>
    /\ UNCHANGED scVars

----------------------------------------------------------------------------
(* write_pty, resize_pty, kill_pty *)

\* mutant: the guard is dropped after the lookup, the write is made on a
\* handle kept outside the lock
write_pty_lookup_unlocked(t) ==
    /\ pc[t] = "write_pty"
    /\ ptyLock = {}
    /\ IF arg[t] \in DOMAIN sessions
         THEN Goto(t, "wr_io")
         ELSE Return(t, "NotFound")
    /\ UNCHANGED <<sessions, counter, ptyLock, now, op, arg, loc, ptyProcs, relay, events, killed>>
    /\ UNCHANGED scVars

\* lib.rs:1394-1395 and 1402-1404: lock and look the session up; when it is
\* present the write starts with the lock held
write_pty_lookup(t) ==
    /\ pc[t] = "write_pty"
    /\ ptyLock = {}
    /\ IF arg[t] \in DOMAIN sessions
         THEN /\ ptyLock' = {t}
              /\ Goto(t, "wr_io")
         ELSE /\ ptyLock' = ptyLock
              /\ Return(t, "NotFound")
    /\ UNCHANGED <<sessions, counter, now, op, arg, loc, ptyProcs, relay, events, killed>>
    /\ UNCHANGED scVars

\* mutant: a write that fails removes the session
write_pty_io_evict(t) ==
    /\ pc[t] = "wr_io"
    /\ ptyLock = {t}
    /\ ptyLock' = {}
    /\ \E r \in {"Ok", "IOError"} :
        /\ Return(t, r)
        /\ sessions' = IF r = "IOError" THEN Remove(sessions, {arg[t]}) ELSE sessions
    /\ UNCHANGED <<counter, now, op, arg, loc, ptyProcs, relay, events, killed>>
    /\ UNCHANGED scVars

\* lib.rs:1396-1401: write_all and flush return, Ok or an io error; the
\* guard is dropped
write_pty_io(t) ==
    /\ pc[t] = "wr_io"
    /\ ptyLock = {t}
    /\ ptyLock' = {}
    /\ \E r \in {"Ok", "IOError"} : Return(t, r)
    /\ UNCHANGED <<sessions, counter, now, op, arg, loc, ptyProcs, relay, events, killed>>
    /\ UNCHANGED scVars

\* mutant: the lookup is skipped, the resize is attempted on any id
resize_pty_unchecked(t) ==
    /\ pc[t] = "resize_pty"
    /\ ptyLock = {}
    /\ \E r \in {"Ok", "IOError"} : Return(t, r)
    /\ UNCHANGED <<sessions, counter, ptyLock, now, op, arg, loc, ptyProcs, relay, events, killed>>
    /\ UNCHANGED scVars

\* mutant: resize runs the sweep before its lookup
resize_pty_sweep(t) ==
    /\ pc[t] = "resize_pty"
    /\ ptyLock = {}
    /\ sessions' = cleanup_expired_sessions(sessions, now)
    /\ IF arg[t] \in DOMAIN sessions'
         THEN \E r \in {"Ok", "IOError"} : Return(t, r)
         ELSE Return(t, "NotFound")
    /\ UNCHANGED <<counter, ptyLock, now, op, arg, loc, ptyProcs, relay, events, killed>>
    /\ UNCHANGED scVars

\* lib.rs:1414-1428
resize_pty(t) ==
    /\ pc[t] = "resize_pty"
    /\ ptyLock = {}
    /\ IF arg[t] \in DOMAIN sessions
         THEN \E r \in {"Ok", "IOError"} : Return(t, r)
         ELSE Return(t, "NotFound")
    /\ UNCHANGED <<sessions, counter, ptyLock, now, op, arg, loc, ptyProcs, relay, events, killed>>
    /\ UNCHANGED scVars

\* mutant: the entry is looked up but not removed
kill_pty_keep(t) ==
    /\ pc[t] = "kill_pty"
    /\ ptyLock = {}
    /\ IF arg[t] \in DOMAIN sessions
         THEN /\ killed' = killed \cup {arg[t]}
              /\ Return(t, "Ok")
         ELSE /\ UNCHANGED killed
              /\ Return(t, "NotFound")
    /\ UNCHANGED <<sessions, counter, ptyLock, now, op, arg, loc, ptyProcs, relay, events>>
    /\ UNCHANGED scVars

\* mutant: every entry is removed
kill_pty_all(t) ==
    /\ pc[t] = "kill_pty"
    /\ ptyLock = {}
    /\ IF arg[t] \in DOMAIN sessions
         THEN /\ sessions' = <<>>
              /\ killed' = killed \cup {arg[t]}
              /\ loc' = [loc EXCEPT ![t].emitted = Len(events[arg[t]])]
              /\ Return(t, "Ok")
         ELSE /\ UNCHANGED <<sessions, killed, loc>>
              /\ Return(t, "NotFound")
    /\ UNCHANGED <<counter, ptyLock, now, op, arg, ptyProcs, relay, events>>
    /\ UNCHANGED scVars

\* mutant: the kill of the session generated last gives its number back
kill_pty_rewind(t) ==
    /\ pc[t] = "kill_pty"
    /\ ptyLock = {}
    /\ IF arg[t] \in DOMAIN sessions
         THEN /\ sessions' = Remove(sessions, {arg[t]})
              /\ counter' = IF arg[t] = counter THEN counter - 1 ELSE counter
              /\ killed' = killed \cup {arg[t]}
              /\ loc' = [loc EXCEPT ![t].emitted = Len(events[arg[t]])]
              /\ Return(t, "Ok")
         ELSE /\ UNCHANGED <<sessions, counter, killed, loc>>
              /\ Return(t, "NotFound")
    /\ UNCHANGED <<ptyLock, now, op, arg, ptyProcs, relay, events>>
    /\ UNCHANGED scVars

\* lib.rs:1436-1441
kill_pty(t) ==
    /\ pc[t] = "kill_pty"
    /\ ptyLock = {}
    /\ IF arg[t] \in DOMAIN sessions
         THEN /\ sessions' = Remove(sessions, {arg[t]})
              /\ killed' = killed \cup {arg[t]}
              /\ loc' = [loc EXCEPT ![t].emitted = Len(events[arg[t]])]
              /\ Return(t, "Ok")
         ELSE /\ UNCHANGED <<sessions, killed, loc>>
              /\ Return(t, "NotFound")
    /\ UNCHANGED <<counter, ptyLock, now, op, arg, ptyProcs, relay, events>>
    /\ UNCHANGED scVars

----------------------------------------------------------------------------
(* Environment: the clock and the pty child processes *)

Tick ==
    /\ now + TickStep <= MaxTicks * TickStep
    /\ now' = now + TickStep
    /\ UNCHANGED <<sessions, counter, ptyLock, ptyProcs, relay, events, killed>>
    /\ UNCHANGED scVars
    /\ UNCHANGED thrVars

\* a pty child process ends, by itself or because its pty was closed
pty_exit ==
    /\ \E p \in DOMAIN ptyProcs :
        /\ ptyProcs[p] = "running"
        /\ ptyProcs' = [ptyProcs EXCEPT ![p] = "exited"]
    /\ UNCHANGED <<sessions, counter, ptyLock, now, relay, events, killed>>
    /\ UNCHANGED scVars
    /\ UNCHANGED thrVars

----------------------------------------------------------------------------
(* The reader thread of a session (lib.rs:1350-1369) *)

\* lib.rs:1353: reader.read(&mut buf) returns Ok(n) with n > 0, Ok(0) once
\* the process has ended, or an error
relay_read(id) ==
    /\ relay[id].pc = "read"
    /\ \/ /\ relay[id].chunk < MaxChunks
          /\ relay' = [relay EXCEPT ![id].pc = "emit_output", ![id].chunk = @ + 1]
       \/ /\ ptyProcs[relay[id].child] = "exited"
          /\ relay' = [relay EXCEPT ![id].pc = "emit_exit"]
       \/ relay' = [relay EXCEPT ![id].pc = "emit_exit"]
    /\ UNCHANGED <<sessions, counter, ptyLock, now, ptyProcs, events, killed>>
    /\ UNCHANGED scVars
    /\ UNCHANGED thrVars

\* mutant: the latest chunk is notified ahead of the earlier ones
relay_emit_output_prepend(id) ==
    /\ relay[id].pc = "emit_output"
    /\ events' = [events EXCEPT ![id] = <<relay[id].chunk>> \o @]
    /\ relay' = [relay EXCEPT ![id].pc = "read"]
    /\ UNCHANGED <<sessions, counter, ptyLock, now, ptyProcs, killed>>
    /\ UNCHANGED scVars
    /\ UNCHANGED thrVars

\* mutant: the relay consults the table and drops the chunk of a session
\* that is not in it
relay_emit_output_checked(id) ==
    /\ relay[id].pc = "emit_output"
    /\ events' = IF id \in DOMAIN sessions
                   THEN [events EXCEPT ![id] = Append(@, relay[id].chunk)]
                   ELSE events
    /\ relay' = [relay EXCEPT ![id].pc = "read"]
    /\ UNCHANGED <<sessions, counter, ptyLock, now, ptyProcs, killed>>
    /\ UNCHANGED scVars
    /\ UNCHANGED thrVars

\* mutant: the relay takes the table lock to notify
relay_emit_output_locked(id) ==
    /\ relay[id].pc = "emit_output"
    /\ ptyLock = {}
    /\ events' = [events EXCEPT ![id] = Append(@, relay[id].chunk)]
    /\ relay' = [relay EXCEPT ![id].pc = "read"]
    /\ UNCHANGED <<sessions, counter, ptyLock, now, ptyProcs, killed>>
    /\ UNCHANGED scVars
    /\ UNCHANGED thrVars

\* lib.rs:1359-1362: emit pty-output-<id> with the chunk and loop
relay_emit_output(id) ==
    /\ relay[id].pc = "emit_output"
    /\ events' = [events EXCEPT ![id] = Append(@, relay[id].chunk)]
    /\ relay' = [relay EXCEPT ![id].pc = "read"]
    /\ UNCHANGED <<sessions, counter, ptyLock, now, ptyProcs, killed>>
    /\ UNCHANGED scVars
    /\ UNCHANGED thrVars

\* mutant: the break after the exit notification is missing
relay_emit_exit_nobreak(id) ==
    /\ relay[id].pc = "emit_exit"
    /\ events' = [events EXCEPT ![id] = Append(@, 0)]
    /\ relay' = [relay EXCEPT ![id].pc = "read"]
    /\ UNCHANGED <<sessions, counter, ptyLock, now, ptyProcs, killed>>
    /\ UNCHANGED scVars
    /\ UNCHANGED thrVars

\* mutant: the relay removes the session from the table when it ends
relay_emit_exit_remove(id) ==
    /\ relay[id].pc = "emit_exit"
    /\ events' = [events EXCEPT ![id] = Append(@, 0)]
    /\ relay' = [relay EXCEPT ![id].pc = "done"]
    /\ sessions' = Remove(sessions, {id})
    /\ UNCHANGED <<counter, ptyLock, now, ptyProcs, killed>>
    /\ UNCHANGED scVars
    /\ UNCHANGED thrVars

\* lib.rs:1354-1358 and 1363-1366: emit pty-exit-<id> and break
relay_emit_exit(id) ==
    /\ relay[id].pc = "emit_exit"
    /\ events' = [events EXCEPT ![id] = Append(@, 0)]
    /\ relay' = [relay EXCEPT ![id].pc = "done"]
    /\ UNCHANGED <<sessions, counter, ptyLock, now, ptyProcs, killed>>
    /\ UNCHANGED scVars
    /\ UNCHANGED thrVars

----------------------------------------------------------------------------
(* The OpenCode sidecar controller (lib.rs:636-798) *)

Ports == 1..NumPorts

\* Child::try_wait on the tracked child: Ok(None) while it runs; once it has
\* terminated Ok(Some(status)), or an error when its status cannot be
\* collected through this handle
try_wait(status) == IF status = "running" THEN {"None"} ELSE {"Some", "Err"}

\* Child::kill: the process is terminated if it still runs
Kill(procs, p) == [procs EXCEPT ![p] = IF @ = "running" THEN "exited" ELSE @]

\* Child::wait returns: the process has terminated and is reaped
Wait(procs, p) == [procs EXCEPT ![p] = "reaped"]

\* commands are invoked until the window is destroyed
invoke_start(t, ports) ==
    /\ hookPc = "idle"
    /\ \E p \in ports : Invoke(t, "start", p)
    /\ UNCHANGED ptyVars
    /\ UNCHANGED scVars

invoke_stop(t) ==
    /\ hookPc = "idle"
    /\ Invoke(t, "stop", 0)
    /\ UNCHANGED ptyVars
    /\ UNCHANGED scVars

invoke_is_managed(t) ==
    /\ hookPc = "idle"
    /\ Invoke(t, "is_managed", 0)
    /\ UNCHANGED ptyVars
    /\ UNCHANGED scVars

\* mutant: the same-port test is missing, a running child is always replaced
start_opencode_server_check_restart(t) ==
    /\ pc[t] = "start"
    /\ scLock = {}
    /\ IF server_state.process = {}
         THEN /\ Goto(t, "start_spawn")
              /\ UNCHANGED <<server_state, scLock, scProcs, loc>>
         ELSE \E child \in server_state.process : \E r \in try_wait(scProcs[child]) :
              \/ /\ r = "Some"
                 /\ scProcs' = Wait(scProcs, child)
                 /\ server_state' = Absent
                 /\ Goto(t, "start_spawn")
                 /\ UNCHANGED <<scLock, loc>>
              \/ /\ r = "None"
                 /\ scProcs' = Kill(scProcs, child)
                 /\ scLock' = {t}
                 /\ loc' = [loc EXCEPT ![t].old = {child}]
                 /\ Goto(t, "start_wait")
                 /\ UNCHANGED server_state
              \/ /\ r = "Err"
                 /\ server_state' = Absent
                 /\ Goto(t, "start_spawn")
                 /\ UNCHANGED <<scLock, scProcs, loc>>
    /\ UNCHANGED <<op, arg, hookPc>>
    /\ UNCHANGED ptyVars

\* mutant: on a port change the tracked child is forgotten, neither killed
\* nor waited for
start_opencode_server_check_forget(t) ==
    /\ pc[t] = "start"
    /\ scLock = {}
    /\ IF server_state.process = {}
         THEN /\ Goto(t, "start_spawn")
              /\ UNCHANGED <<server_state, scLock, scProcs, loc>>
         ELSE \E child \in server_state.process : \E r \in try_wait(scProcs[child]) :
              \/ /\ r = "Some"
                 /\ scProcs' = Wait(scProcs, child)
                 /\ server_state' = Absent
                 /\ Goto(t, "start_spawn")
                 /\ UNCHANGED <<scLock, loc>>
              \/ /\ r = "None"
                 /\ IF server_state.port = {arg[t]}
                      THEN /\ Return(t, "Ok")
                           /\ UNCHANGED <<server_state, scLock, scProcs, loc>>
                      ELSE /\ server_state' = Absent
                           /\ loc' = [loc EXCEPT ![t].old = {child}]
                           /\ Goto(t, "start_spawn")
                           /\ UNCHANGED <<scLock, scProcs>>
              \/ /\ r = "Err"
                 /\ server_state' = Absent
                 /\ Goto(t, "start_spawn")
                 /\ UNCHANGED <<scLock, scProcs, loc>>
    /\ UNCHANGED <<op, arg, hookPc>>
    /\ UNCHANGED ptyVars

\* mutant: the same-port test is made before the poll, a tracked child on
\* the requested port is taken to run
start_opencode_server_check_stale(t) ==
    /\ pc[t] = "start"
    /\ scLock = {}
    /\ IF server_state.process = {}
         THEN /\ Goto(t, "start_spawn")
              /\ UNCHANGED <<server_state, scLock, scProcs, loc>>
         ELSE IF server_state.port = {arg[t]}
         THEN /\ Return(t, "Ok")
              /\ UNCHANGED <<server_state, scLock, scProcs, loc>>
         ELSE \E child \in server_state.process : \E r \in try_wait(scProcs[child]) :
              \/ /\ r = "Some"
                 /\ scProcs' = Wait(scProcs, child)
                 /\ server_state' = Absent
                 /\ loc' = [loc EXCEPT ![t].polled = {r}]
                 /\ Goto(t, "start_spawn")
                 /\ UNCHANGED scLock
              \/ /\ r = "None"
                 /\ scProcs' = Kill(scProcs, child)
                 /\ scLock' = {t}
                 /\ loc' = [loc EXCEPT ![t].old = {child}, ![t].polled = {r}]
                 /\ Goto(t, "start_wait")
                 /\ UNCHANGED server_state
              \/ /\ r = "Err"
                 /\ server_state' = Absent
                 /\ loc' = [loc EXCEPT ![t].polled = {r}]
                 /\ Goto(t, "start_spawn")
                 /\ UNCHANGED <<scLock, scProcs>>
    /\ UNCHANGED <<op, arg, hookPc>>
    /\ UNCHANGED ptyVars

\* lib.rs:645-677: lock and poll the tracked child (the result is kept in
\* loc.polled); on a port change kill it and start to wait for it with the
\* lock held
start_opencode_server_check(t) ==
    /\ pc[t] = "start"
    /\ scLock = {}
    /\ IF server_state.process = {}
         THEN /\ Goto(t, "start_spawn")
              /\ UNCHANGED <<server_state, scLock, scProcs, loc>>
         ELSE \E child \in server_state.process : \E r \in try_wait(scProcs[child]) :
              \/ /\ r = "Some"
                 /\ scProcs' = Wait(scProcs, child)
                 /\ server_state' = Absent
                 /\ loc' = [loc EXCEPT ![t].polled = {r}]
                 /\ Goto(t, "start_spawn")
                 /\ UNCHANGED scLock
              \/ /\ r = "None"
                 /\ IF server_state.port = {arg[t]}
                      THEN /\ Return(t, "Ok")
                           /\ loc' = [loc EXCEPT ![t].polled = {r}]
                           /\ UNCHANGED <<server_state, scLock, scProcs>>
                      ELSE /\ scProcs' = Kill(scProcs, child)
                           /\ scLock' = {t}
                           /\ loc' = [loc EXCEPT ![t].old = {child}, ![t].polled = {r}]
                           /\ Goto(t, "start_wait")
                           /\ UNCHANGED server_state
              \/ /\ r = "Err"
                 /\ server_state' = Absent
                 /\ loc' = [loc EXCEPT ![t].polled = {r}]
                 /\ Goto(t, "start_spawn")
                 /\ UNCHANGED <<scLock, scProcs>>
    /\ UNCHANGED <<op, arg, hookPc>>
    /\ UNCHANGED ptyVars

\* lib.rs:665-667: child.wait() returns, the state is cleared, the guard is
\* dropped
start_opencode_server_wait(t) ==
    /\ pc[t] = "start_wait"
    /\ scLock = {t}
    /\ \E child \in loc[t].old : scProcs' = Wait(scProcs, child)
    /\ server_state' = Absent
    /\ scLock' = {}
    /\ Goto(t, "start_spawn")
    /\ UNCHANGED <<op, arg, loc, hookPc>>
    /\ UNCHANGED ptyVars

\* lib.rs:679-742, no lock held: cmd.spawn() returns the child or an error;
\* the system runs at most MaxSidecars sidecar processes, further spawns fail
start_opencode_server_spawn(t) ==
    /\ pc[t] = "start_spawn"
    /\ \/ /\ Len(scProcs) < MaxSidecars
          /\ scProcs' = Append(scProcs, "running")
          /\ loc' = [loc EXCEPT ![t].child = {Len(scProcs) + 1}]
          /\ Goto(t, "start_store")
       \/ /\ Return(t, "SpawnFailed")
          /\ UNCHANGED <<scProcs, loc>>
    /\ UNCHANGED <<server_state, scLock, op, arg, hookPc>>
    /\ UNCHANGED ptyVars

\* mutant: the child is stored without its port
start_opencode_server_store_noport(t) ==
    /\ pc[t] = "start_store"
    /\ scLock = {}
    /\ server_state' = [process |-> loc[t].child, port |-> {}]
    /\ Return(t, "Ok")
    /\ UNCHANGED <<scLock, scProcs, op, arg, loc, hookPc>>
    /\ UNCHANGED ptyVars

\* lib.rs:751-759: lock, store the child and the port, unlock, Ok(()); a
\* Child already in the slot is dropped, which neither kills nor reaps it
start_opencode_server_store(t) ==
    /\ pc[t] = "start_store"
    /\ scLock = {}
    /\ server_state' = [process |-> loc[t].child, port |-> {arg[t]}]
    /\ Return(t, "Ok")
    /\ UNCHANGED <<scLock, scProcs, op, arg, loc, hookPc>>
    /\ UNCHANGED ptyVars

\* lib.rs:765-768: lock; kill the tracked child and start to wait for it
stop_opencode_server_kill(t) ==
    /\ pc[t] = "stop"
    /\ scLock = {}
    /\ IF server_state.process = {}
         THEN /\ server_state' = Absent
              /\ Return(t, "Ok")
              /\ UNCHANGED <<scLock, scProcs, loc>>
         ELSE \E child \in server_state.process :
              /\ scProcs' = Kill(scProcs, child)
              /\ scLock' = {t}
              /\ loc' = [loc EXCEPT ![t].old = {child}]
              /\ Goto(t, "stop_wait")
              /\ UNCHANGED server_state
    /\ UNCHANGED <<op, arg, hookPc>>
    /\ UNCHANGED ptyVars

\* mutant: the state is not cleared after the wait
stop_opencode_server_wait_keep(t) ==
    /\ pc[t] = "stop_wait"
    /\ scLock = {t}
    /\ \E child \in loc[t].old : scProcs' = Wait(scProcs, child)
    /\ server_state' = server_state
    /\ scLock' = {}
    /\ Return(t, "Ok")
    /\ UNCHANGED <<op, arg, loc, hookPc>>
    /\ UNCHANGED ptyVars

\* lib.rs:769-773: child.wait() returns, the state is cleared, Ok(())
stop_opencode_server_wait(t) ==
    /\ pc[t] = "stop_wait"
    /\ scLock = {t}
    /\ \E child \in loc[t].old : scProcs' = Wait(scProcs, child)
    /\ server_state' = Absent
    /\ scLock' = {}
    /\ Return(t, "Ok")
    /\ UNCHANGED <<op, arg, loc, hookPc>>
    /\ UNCHANGED ptyVars

\* mutant: the poll is skipped, a tracked child is reported as managed
is_opencode_server_managed_nopoll(t) ==
    /\ pc[t] = "is_managed"
    /\ scLock = {}
    /\ IF server_state.process = {}
         THEN /\ Return(t, "false")
              /\ UNCHANGED <<server_state, scProcs, loc>>
         ELSE \E child \in server_state.process :
              /\ loc' = [loc EXCEPT ![t].old = {child}]
              /\ Return(t, "true")
              /\ UNCHANGED <<server_state, scProcs>>
    /\ UNCHANGED <<scLock, op, arg, hookPc>>
    /\ UNCHANGED ptyVars

\* mutant: a child that cannot be polled is waited for before the state is
\* cleared
is_opencode_server_managed_reap(t) ==
    /\ pc[t] = "is_managed"
    /\ scLock = {}
    /\ IF server_state.process = {}
         THEN /\ Return(t, "false")
              /\ UNCHANGED <<server_state, scProcs, loc>>
         ELSE \E child \in server_state.process : \E r \in try_wait(scProcs[child]) :
              /\ loc' = [loc EXCEPT ![t].old = {child}, ![t].polled = {r}]
              /\ \/ /\ r = "Some"
                    /\ scProcs' = Wait(scProcs, child)
                    /\ server_state' = Absent
                    /\ Return(t, "false")
                 \/ /\ r = "None"
                    /\ Return(t, "true")
                    /\ UNCHANGED <<server_state, scProcs>>
                 \/ /\ r = "Err"
                    /\ scProcs' = Wait(Kill(scProcs, child), child)
                    /\ server_state' = Absent
                    /\ Return(t, "false")
    /\ UNCHANGED <<scLock, op, arg, hookPc>>
    /\ UNCHANGED ptyVars

\* lib.rs:778-798: lock, poll the tracked child (ref mut child, kept in
\* loc.old, the result in loc.polled), clear the state when it has exited
\* or cannot be polled
is_opencode_server_managed(t) ==
    /\ pc[t] = "is_managed"
    /\ scLock = {}
    /\ IF server_state.process = {}
         THEN /\ Return(t, "false")
              /\ UNCHANGED <<server_state, scProcs, loc>>
         ELSE \E child \in server_state.process : \E r \in try_wait(scProcs[child]) :
              /\ loc' = [loc EXCEPT ![t].old = {child}, ![t].polled = {r}]
              /\ \/ /\ r = "Some"
                    /\ scProcs' = Wait(scProcs, child)
                    /\ server_state' = Absent
                    /\ Return(t, "false")
                 \/ /\ r = "None"
                    /\ Return(t, "true")
                    /\ UNCHANGED <<server_state, scProcs>>
                 \/ /\ r = "Err"
                    /\ server_state' = Absent
                    /\ Return(t, "false")
                    /\ UNCHANGED scProcs
    /\ UNCHANGED <<scLock, op, arg, hookPc>>
    /\ UNCHANGED ptyVars

----------------------------------------------------------------------------
(* The window-destroyed hook of run() (lib.rs:1976-1986) *)

\* the window is destroyed: the hook is called and no command is invoked any more
window_destroyed ==
    /\ hookPc = "idle"
    /\ hookPc' = "lock"
    /\ UNCHANGED <<server_state, scLock, scProcs>>
    /\ UNCHANGED ptyVars
    /\ UNCHANGED thrVars

\* mutant: the hook also takes the table lock, to close the sessions, while
\* it holds the sidecar lock
on_window_event_destroyed_sessions ==
    /\ hookPc = "lock"
    /\ scLock = {}
    /\ ptyLock = {}
    /\ IF server_state.process = {}
         THEN /\ server_state' = Absent
              /\ hookPc' = "done"
              /\ UNCHANGED <<scLock, scProcs, ptyLock>>
         ELSE \E child \in server_state.process :
              /\ scProcs' = Kill(scProcs, child)
              /\ scLock' = {"hook"}
              /\ ptyLock' = {"hook"}
              /\ hookPc' = "wait"
              /\ UNCHANGED server_state
    /\ UNCHANGED <<sessions, counter, now, ptyProcs, relay, events, killed>>
    /\ UNCHANGED thrVars

\* lib.rs:1978-1980: lock; kill the tracked child and start to wait for it
on_window_event_destroyed ==
    /\ hookPc = "lock"
    /\ scLock = {}
    /\ IF server_state.process = {}
         THEN /\ server_state' = Absent
              /\ hookPc' = "done"
              /\ UNCHANGED <<scLock, scProcs>>
         ELSE \E child \in server_state.process :
              /\ scProcs' = Kill(scProcs, child)
              /\ scLock' = {"hook"}
              /\ hookPc' = "wait"
              /\ UNCHANGED server_state
    /\ UNCHANGED ptyVars
    /\ UNCHANGED thrVars

\* mutant: the hook also closes the pty sessions
on_window_event_wait_sessions ==
    /\ hookPc = "wait"
    /\ scLock = {"hook"}
    /\ \E child \in server_state.process : scProcs' = Wait(scProcs, child)
    /\ server_state' = Absent
    /\ scLock' = {}
    /\ hookPc' = "done"
    /\ sessions' = <<>>
    /\ UNCHANGED <<counter, ptyLock, now, ptyProcs, relay, events, killed>>
    /\ UNCHANGED thrVars

\* lib.rs:1981-1984: child.wait() returns, the state is cleared
on_window_event_wait ==
    /\ hookPc = "wait"
    /\ scLock = {"hook"}
    /\ \E child \in server_state.process : scProcs' = Wait(scProcs, child)
    /\ server_state' = Absent
    /\ scLock' = {}
    /\ hookPc' = "done"
    /\ UNCHANGED ptyVars
    /\ UNCHANGED thrVars

\* a sidecar process ends by itself
sidecar_exit ==
    /\ \E p \in DOMAIN scProcs :
        /\ scProcs[p] = "running"
        /\ scProcs' = [scProcs EXCEPT ![p] = "exited"]
    /\ UNCHANGED <<server_state, scLock, hookPc>>
    /\ UNCHANGED ptyVars
    /\ UNCHANGED thrVars

----------------------------------------------------------------------------
(* Specifications *)

TableStep(t) ==
    \/ invoke_spawn_pty(t)
    \/ invoke_write_pty(t, ArgIds)
    \/ invoke_resize_pty(t, ArgIds)
    \/ invoke_kill_pty(t, ArgIds)
    \/ spawn_pty_check(t)
    \/ spawn_pty_open(t, {"ok", "fail"}, MaxCounter)
    \/ spawn_pty_id(t)
    \/ spawn_pty_reader(t)
    \/ spawn_pty_store(t)
    \/ write_pty_lookup(t)
    \/ write_pty_io(t)
    \/ resize_pty(t)
    \/ kill_pty(t)

Next == (\E t \in Threads : TableStep(t)) \/ Tick

\* the session table under concurrent create, write, resize and kill calls
Spec == Init /\ [][Next]_vars

RelayStep(t) ==
    \/ invoke_spawn_pty(t)
    \/ invoke_kill_pty(t, {1})
    \/ spawn_pty_check(t)
    \/ spawn_pty_open(t, {"ok", "fail"}, MaxCounter)
    \/ spawn_pty_id(t)
    \/ spawn_pty_reader(t)
    \/ spawn_pty_store(t)
    \/ kill_pty(t)

\* the reader threads run beside one caller thread: they share no state with
\* the callers, whose interleavings are the subject of Spec
RelayCallers == {"t1"}

NextRelay ==
    \/ \E t \in RelayCallers : RelayStep(t)
    \/ \E id \in DOMAIN relay : relay_read(id)
    \/ \E id \in DOMAIN relay : relay_emit_output(id)
    \/ \E id \in DOMAIN relay : relay_emit_exit(id)
    \/ pty_exit

\* the reader threads of the sessions, with create calls and kill calls on
\* the first session
SpecRelay == Init /\ [][NextRelay]_vars

SidecarStep(t) ==
    \/ invoke_start(t, Ports)
    \/ invoke_stop(t)
    \/ invoke_is_managed(t)
    \/ start_opencode_server_check(t)
    \/ start_opencode_server_wait(t)
    \/ start_opencode_server_spawn(t)
    \/ start_opencode_server_store(t)
    \/ stop_opencode_server_kill(t)
    \/ stop_opencode_server_wait(t)
    \/ is_opencode_server_managed(t)

NextSidecar ==
    \/ \E t \in Threads : SidecarStep(t)
    \/ window_destroyed
    \/ on_window_event_destroyed
    \/ on_window_event_wait
    \/ sidecar_exit

\* the sidecar controller under concurrent start, stop and is_opencode_server_managed calls
\* and the window-destroyed hook
SpecSidecar == Init /\ [][NextSidecar]_vars

CapStep(t) ==
    \/ invoke_spawn_pty(t)
    \/ invoke_kill_pty(t, {1})
    \/ spawn_pty_check(t)
    \/ spawn_pty_open(t, {"ok", "fail"}, MAX_PTY_SESSIONS + CapSlack)
    \/ spawn_pty_id(t)
    \/ spawn_pty_reader(t)
    \/ spawn_pty_store(t)
    \/ kill_pty(t)

\* the clock stands still here: ages and sweeps are the subject of Spec
NextCap == \E t \in Threads : CapStep(t)

\* the session table filled up to its capacity by concurrent create calls
SpecCap == Init /\ [][NextCap]_vars

CreateStep(t) ==
    \/ invoke_spawn_pty(t)
    \/ invoke_kill_pty(t, ArgIds)
    \/ kill_pty(t)
    \/ spawn_pty_check(t)
    \/ spawn_pty_open(t, {"ok", "fail", "fail_late"}, MaxCounter + 1)
    \/ spawn_pty_id(t)
    \/ spawn_pty_reader(t)
    \/ spawn_pty_store(t)

NextCreate == (\E t \in Threads : CreateStep(t)) \/ Tick

\* concurrent create calls that may fail at any of their fallible steps, with
\* kill calls and the clock
SpecCreate == Init /\ [][NextCreate]_vars

LocksStep(t) ==
    \/ invoke_spawn_pty(t)
    \/ invoke_write_pty(t, {1})
    \/ spawn_pty_check(t)
    \/ spawn_pty_open(t, {"ok"}, MaxCounter)
    \/ spawn_pty_id(t)
    \/ spawn_pty_reader(t)
    \/ spawn_pty_store(t)
    \/ write_pty_lookup(t)
    \/ write_pty_io(t)
    \/ invoke_start(t, Ports)
    \/ invoke_stop(t)
    \/ start_opencode_server_check(t)
    \/ start_opencode_server_wait(t)
    \/ start_opencode_server_spawn(t)
    \/ start_opencode_server_store(t)
    \/ stop_opencode_server_kill(t)
    \/ stop_opencode_server_wait(t)

NextLocks ==
    \/ \E t \in Threads : LocksStep(t)
    \/ window_destroyed
    \/ on_window_event_destroyed
    \/ on_window_event_wait

\* the commands that keep a lock while they block (write_pty, sidecar start
\* and stop) and the create calls, invoked by the same caller threads, and
\* the window-destroyed hook
SpecLocks == Init /\ [][NextLocks]_vars

AgeStep(t) ==
    \/ invoke_spawn_pty(t)
    \/ invoke_write_pty(t, {1})
    \/ invoke_resize_pty(t, {1})
    \/ invoke_kill_pty(t, {1})
    \/ spawn_pty_check(t)
    \/ spawn_pty_open(t, {"ok", "fail"}, MaxCounter)
    \/ spawn_pty_id(t)
    \/ spawn_pty_reader(t)
    \/ spawn_pty_store(t)
    \/ write_pty_lookup(t)
    \/ write_pty_io(t)
    \/ resize_pty(t)
    \/ kill_pty(t)

NextAge == (\E t \in Threads : AgeStep(t)) \/ Tick

\* write, resize and kill calls on the first session, racing with each
\* other, with create calls and their sweeps, and with the clock
SpecAge == Init /\ [][NextAge]_vars

IndepStep(t) ==
    \/ invoke_spawn_pty(t)
    \/ invoke_write_pty(t, {1})
    \/ spawn_pty_check(t)
    \/ spawn_pty_open(t, {"ok"}, MaxCounter)
    \/ spawn_pty_id(t)
    \/ spawn_pty_reader(t)
    \/ spawn_pty_store(t)
    \/ write_pty_lookup(t)
    \/ write_pty_io(t)

NextIndep ==
    \/ \E t \in Threads : IndepStep(t)
    \/ \E id \in DOMAIN relay : relay_read(id)
    \/ \E id \in DOMAIN relay : relay_emit_output(id)
    \/ \E id \in DOMAIN relay : relay_emit_exit(id)

\* the reader threads beside caller threads that create sessions and write
\* to the first one, keeping the table lock while the write is in progress
SpecIndep == Init /\ [][NextIndep]_vars

ExitedStep(t) ==
    \/ invoke_spawn_pty(t)
    \/ invoke_kill_pty(t, {1})
    \/ spawn_pty_check(t)
    \/ spawn_pty_open(t, {"ok"}, MAX_PTY_SESSIONS + CapSlack)
    \/ spawn_pty_id(t)
    \/ spawn_pty_reader(t)
    \/ spawn_pty_store(t)
    \/ kill_pty(t)

NextExited == (\E t \in RelayCallers : ExitedStep(t)) \/ pty_exit

\* the session table filled up to its capacity by one caller thread while
\* the processes of the sessions end; the clock stands still
SpecExited == Init /\ [][NextExited]_vars

\* commands whose steps take the table lock without a blocking call, and the
\* steps that hold no lock, are scheduled fairly: a thread that can step
\* does. Nothing forces a pty write to complete (write_pty_io), a caller to
\* invoke a command, or the clock to advance.
TableFairness ==
    \A t \in Threads :
        /\ SF_vars(spawn_pty_check(t))
        /\ WF_vars(spawn_pty_open(t, {"ok", "fail"}, MaxCounter))
        /\ SF_vars(spawn_pty_id(t))
        /\ WF_vars(spawn_pty_reader(t))
        /\ SF_vars(spawn_pty_store(t))
        /\ SF_vars(write_pty_lookup(t))
        /\ SF_vars(resize_pty(t))
        /\ SF_vars(kill_pty(t))

\* the session table under fair scheduling of the caller threads
SpecLive == Init /\ [][Next]_vars /\ TableFairness

----------------------------------------------------------------------------
(* Properties of the session table and the reader threads *)

\* C1: in every reachable state the session table holds at most
\* MAX_PTY_SESSIONS sessions, for every interleaving of concurrent create
\* and kill calls.
C1_TableWithinCapacity == Cardinality(DOMAIN sessions) <= MAX_PTY_SESSIONS

\* the notifications of e that are exit notifications
Exits(e) == {i \in 1..Len(e) : e[i] = 0}

\* C4: for every session the reader thread emits at most one exit
\* notification, it has emitted exactly one when it has terminated and none
\* while it runs, and the exit notification is the last notification of the
\* session: no output notification follows it.
C4_OneFinalExit ==
    \A id \in DOMAIN events :
        /\ Cardinality(Exits(events[id])) <= 1
        /\ \A i \in Exits(events[id]) : i = Len(events[id])
        /\ (relay[id].pc = "done") <=> (Exits(events[id]) # {})

\* a reader thread has emitted output notifications, then the exit
\* notification, and has terminated
C4_Witness ==
    \E id \in DOMAIN events :
        /\ relay[id].pc = "done"
        /\ Len(events[id]) > 1
        /\ events[id][Len(events[id])] = 0
        /\ events[id][1] > 0

\* C5: once kill_pty(id) has returned Ok, every write_pty(id) and
\* resize_pty(id) that returns afterwards returns NotFound, whatever
\* commands (creates included) ran in between.
C5_KilledStaysNotFound ==
    [][\A t \in Threads :
          (/\ pc[t] \in {"write_pty", "wr_io", "resize_pty"}
           /\ pc'[t] = "idle"
           /\ arg[t] \in killed)
          => ret'[t] = "NotFound"]_vars

\* a write or resize invoked after the kill of its id returned NotFound, while
\* a session created later is in the table
C5_Witness ==
    \E t \in Threads :
        /\ pc[t] = "idle"
        /\ op[t] \in {"write_pty", "resize_pty"}
        /\ loc[t].after_kill
        /\ ret[t] = "NotFound"
        /\ \E id \in DOMAIN sessions : id > arg[t]

\* C6: write_pty, resize_pty and kill_pty on an id that is not in the table
\* return NotFound and leave the table and the id counter unchanged.
C6_UnknownIdNotFound ==
    [][\A t \in Threads :
          (/\ pc[t] \in {"write_pty", "resize_pty", "kill_pty"}
           /\ pc'[t] # pc[t]
           /\ arg[t] \notin DOMAIN sessions)
          => (/\ pc'[t] = "idle"
              /\ ret'[t] = "NotFound"
              /\ sessions' = sessions
              /\ counter' = counter)]_vars

\* each of the three commands has returned NotFound on a table that holds
\* another session
C6_Witness ==
    /\ \E t \in Threads :
        /\ pc[t] = "idle"
        /\ op[t] = "kill_pty"
        /\ ret[t] = "NotFound"
        /\ arg[t] \notin DOMAIN sessions
    /\ \E t \in Threads :
        /\ pc[t] = "idle"
        /\ op[t] \in {"write_pty", "resize_pty"}
        /\ ret[t] = "NotFound"
        /\ arg[t] \notin DOMAIN sessions
    /\ sessions # <<>>

\* C7: a write_pty, resize_pty or kill_pty on an id that is not in the table
\* eventually returns, whatever the other threads are doing.
C7_UnknownIdReturns ==
    \A t \in Threads :
        (pc[t] \in {"write_pty", "resize_pty", "kill_pty"} /\ arg[t] \notin DOMAIN sessions)
            ~> (pc[t] = "idle")

\* C8: the sweep of a create call removes every session whose age is at or
\* above PTY_SESSION_TIMEOUT and keeps every younger session as it is,
\* whether the create then goes on or fails.
C8_SweepRemovesExpired ==
    [][\A t \in Threads :
          (pc[t] = "spawn_pty" /\ pc'[t] # "spawn_pty")
          => \A id \in DOMAIN sessions :
                IF now - sessions[id].created_at >= PTY_SESSION_TIMEOUT
                  THEN id \notin DOMAIN sessions'
                  ELSE id \in DOMAIN sessions' /\ sessions'[id] = sessions[id]]_vars

\* a create call that failed had swept a session that was never killed, and
\* kept a session of positive age
C8_Witness ==
    \E t \in Threads :
        /\ pc[t] = "idle"
        /\ op[t] = "spawn_pty"
        /\ ret[t] = "SpawnFailed"
        /\ loc[t].swept # {}
        /\ loc[t].swept \cap killed = {}
        /\ \E id \in DOMAIN sessions : now - sessions[id].created_at = TickStep

----------------------------------------------------------------------------
(* Properties of the sidecar controller and the window-destroyed hook *)

\* the sidecar processes that are alive
Alive == {p \in DOMAIN scProcs : scProcs[p] = "running"}

\* no command is in flight
Quiet == \A t \in Threads : pc[t] = "idle"

\* the tracked child runs (its poll would return Ok(None))
TrackedRunning == \E p \in server_state.process : scProcs[p] = "running"

\* C2: at most one sidecar process spawned by the controller is alive at any
\* time, and once the calls have returned every live sidecar process is the
\* one tracked in the state.
C2_SingleTrackedSidecar ==
    /\ Cardinality(Alive) <= 1
    /\ (Quiet /\ hookPc \in {"idle", "done"}) => Alive \subseteq server_state.process

\* C3: once the window-destroyed hook and all in-flight calls have
\* returned, no sidecar process is alive and the state is Absent.
C3_NoSidecarAfterShutdown ==
    (hookPc = "done" /\ Quiet) => (Alive = {} /\ server_state = Absent)

\* C9: a start on the port of the tracked, running child returns Ok and
\* leaves the state and every process as they are (nothing spawned, killed
\* or replaced); a start that spawned leaves its child and port tracked, and
\* is_opencode_server_managed returns true, changing nothing, while the tracked child runs.
C9_SamePortStartIsNoOp ==
    [][\A t \in Threads :
          /\ (/\ pc[t] = "start"
              /\ pc'[t] # "start"
              /\ TrackedRunning
              /\ server_state.port = {arg[t]})
             => (/\ pc'[t] = "idle"
                 /\ ret'[t] = "Ok"
                 /\ loc'[t].child = {}
                 /\ server_state' = server_state
                 /\ scProcs' = scProcs)
          /\ (pc[t] = "start_store" /\ pc'[t] = "idle")
             => (/\ ret'[t] = "Ok"
                 /\ server_state' = [process |-> loc[t].child, port |-> {arg[t]}])
          /\ (pc[t] = "is_managed" /\ pc'[t] = "idle" /\ TrackedRunning)
             => (/\ ret'[t] = "true"
                 /\ server_state' = server_state
                 /\ scProcs' = scProcs)]_vars

\* a start has returned Ok without spawning: the one process ever spawned
\* still runs and is tracked on the port of the call, and is_opencode_server_managed has
\* returned true
C9_Witness ==
    \E t, u \in Threads :
        /\ pc[t] = "idle" /\ op[t] = "start" /\ ret[t] = "Ok"
        /\ loc[t].child = {}
        /\ Len(scProcs) = 1
        /\ scProcs[1] = "running"
        /\ server_state = [process |-> {1}, port |-> {arg[t]}]
        /\ pc[u] = "idle" /\ op[u] = "is_managed" /\ ret[u] = "true"

\* the tracked child a start call found running on another port
Replaced(t) ==
    IF pc[t] \in {"start_spawn", "start_store"} \/ (pc[t] = "idle" /\ op[t] = "start")
      THEN loc[t].old
      ELSE {}

\* C10: a start on a port other than that of the tracked, running child
\* kills that child and waits for it before it spawns: the old process is
\* reaped when the new one is spawned and when the call returns; on success
\* the state is Running with the new child and the new port.
C10_PortChangeReplaces ==
    [][\A t \in Threads :
          /\ (/\ pc[t] = "start"
              /\ pc'[t] # "start"
              /\ TrackedRunning
              /\ server_state.port # {arg[t]})
             => (/\ pc'[t] = "start_wait"
                 /\ loc'[t].old = server_state.process
                 /\ \A p \in server_state.process : scProcs'[p] # "running")
          /\ \A p \in Replaced(t)' : scProcs'[p] = "reaped"
          /\ (pc[t] = "start_store" /\ pc'[t] = "idle")
             => (/\ ret'[t] = "Ok"
                 /\ loc[t].child \cap loc[t].old = {}
                 /\ server_state' = [process |-> loc[t].child, port |-> {arg[t]}])]_vars

\* a start has replaced a running child: it returned Ok, the old process is
\* reaped, the new one runs and is tracked on the new port
C10_Witness ==
    \E t \in Threads :
        /\ pc[t] = "idle" /\ op[t] = "start" /\ ret[t] = "Ok"
        /\ loc[t].old # {}
        /\ \A p \in loc[t].old : scProcs[p] = "reaped"
        /\ \A p \in loc[t].child : scProcs[p] = "running"
        /\ server_state = [process |-> loc[t].child, port |-> {arg[t]}]

\* C11: stop_opencode_server always returns Ok; when a child is tracked it
\* kills it and waits for it, and the state is Absent when it returns; when
\* the state is Absent it changes neither the state nor any process (so a
\* second stop leaves what the first one left).
C11_StopIsIdempotent ==
    [][\A t \in Threads :
          /\ (pc[t] = "stop" /\ pc'[t] # "stop")
             => IF server_state.process = {}
                  THEN /\ pc'[t] = "idle"
                       /\ ret'[t] = "Ok"
                       /\ server_state' = server_state
                       /\ scProcs' = scProcs
                  ELSE /\ pc'[t] = "stop_wait"
                       /\ loc'[t].old = server_state.process
                       /\ \A p \in server_state.process : scProcs'[p] # "running"
          /\ (pc[t] = "stop_wait" /\ pc'[t] # "stop_wait")
             => (/\ pc'[t] = "idle"
                 /\ ret'[t] = "Ok"
                 /\ server_state' = Absent
                 /\ \A p \in loc[t].old : scProcs'[p] = "reaped")
          /\ (op[t] = "stop" /\ pc[t] # "idle" /\ pc'[t] = "idle")
             => (ret'[t] = "Ok" /\ server_state' = Absent)]_vars

\* a stop has killed and reaped the tracked child, and a stop on the Absent
\* state has returned Ok after it
C11_Witness ==
    \E t, u \in Threads :
        /\ pc[t] = "idle" /\ op[t] = "stop" /\ ret[t] = "Ok"
        /\ loc[t].old # {}
        /\ \A p \in loc[t].old : scProcs[p] = "reaped"
        /\ pc[u] = "idle" /\ op[u] = "stop" /\ ret[u] = "Ok"
        /\ loc[u].old = {}
        /\ server_state = Absent
        /\ hookPc = "idle"

\* C12: is_opencode_server_managed returns true exactly when a child is
\* tracked and runs, and then changes nothing; when the tracked child has
\* exited it returns false and the state becomes Absent; when the state is
\* Absent it returns false and changes nothing.
C12_IsManagedPolls ==
    [][\A t \in Threads :
          (pc[t] = "is_managed" /\ pc'[t] # "is_managed")
          => /\ pc'[t] = "idle"
             /\ ret'[t] = (IF TrackedRunning THEN "true" ELSE "false")
             /\ TrackedRunning => (server_state' = server_state /\ scProcs' = scProcs)
             /\ ~TrackedRunning => server_state' = Absent
             /\ server_state.process = {}
                => (server_state' = server_state /\ scProcs' = scProcs)]_vars

\* is_opencode_server_managed has found the tracked child exited, returned
\* false and cleared the state, after another call had returned true
C12_Witness ==
    \E t, u \in Threads :
        /\ pc[t] = "idle" /\ op[t] = "is_managed" /\ ret[t] = "false"
        /\ loc[t].old # {}
        /\ \A p \in loc[t].old : scProcs[p] # "running"
        /\ server_state = Absent
        /\ pc[u] = "idle" /\ op[u] = "is_managed" /\ ret[u] = "true"
        /\ loc[u].old = loc[t].old

\* C13: while the sidecar lock is free, the process and the port of the
\* state are both present or both absent.
C13_ProcessAndPortTogether ==
    scLock = {} => ((server_state.process = {}) <=> (server_state.port = {}))

\* a second child is tracked with its port after the first one was cleared
C13_Witness ==
    /\ scLock = {}
    /\ Len(scProcs) = 2
    /\ scProcs[1] = "reaped"
    /\ server_state.process = {2}
    /\ server_state.port # {}

----------------------------------------------------------------------------
(* Properties of create calls *)

\* the session ids generated so far: those a reader thread was started for
\* and those the create calls hold
GeneratedIds == DOMAIN relay \cup UNION {loc[u].session_id : u \in Threads}

\* C14: the id a create call generates is new and larger than every id
\* generated before it, by earlier and by concurrent create calls, whether
\* their sessions are in the table, were killed or were swept; a successful
\* create returns that id and inserts it into a table that does not hold it.
C14_FreshSessionIds ==
    [][\A t \in Threads :
          /\ (pc[t] = "sp_id" /\ pc'[t] # "sp_id")
             => (/\ loc'[t].session_id = {counter'}
                 /\ counter' > counter
                 /\ \A j \in GeneratedIds \cup DOMAIN sessions \cup killed : j < counter')
          /\ (pc[t] = "sp_store" /\ pc'[t] # "sp_store")
             => (/\ pc'[t] = "idle"
                 /\ ret'[t] = "Ok"
                 /\ loc'[t].session_id = loc[t].session_id
                 /\ loc[t].session_id \cap DOMAIN sessions = {}
                 /\ DOMAIN sessions' = DOMAIN sessions \cup loc[t].session_id)]_vars

\* two create calls have returned different ids, the later one after the
\* session of the earlier one had left the table
C14_Witness ==
    \E t, u \in Threads :
        /\ pc[t] = "idle" /\ op[t] = "spawn_pty" /\ ret[t] = "Ok"
        /\ pc[u] = "idle" /\ op[u] = "spawn_pty" /\ ret[u] = "Ok"
        /\ loc[u].session_id = {1}
        /\ loc[t].session_id = {2}
        /\ DOMAIN sessions = {2}

\* C15: a create call that fails with SpawnFailed fails at its open step,
\* after its sweep and before an id is generated: the failing step leaves
\* the table, the id counter, the reader threads and the notifications as
\* they are.
C15_SpawnFailedLeavesNoState ==
    [][\A t \in Threads :
          /\ (pc[t] = "sp_open" /\ pc'[t] = "idle")
             => (/\ ret'[t] = "SpawnFailed"
                 /\ loc'[t].session_id = {}
                 /\ sessions' = sessions
                 /\ counter' = counter
                 /\ relay' = relay
                 /\ events' = events)
          /\ (pc[t] # "idle" /\ pc'[t] = "idle" /\ ret'[t] = "SpawnFailed")
             => pc[t] = "sp_open"]_vars

\* a create call has failed after its command was spawned and after its
\* sweep removed a session: the table holds another session, none for the
\* spawned process, and every id generated belongs to a finished create
C15_Witness ==
    \E t \in Threads :
        /\ pc[t] = "idle" /\ op[t] = "spawn_pty" /\ ret[t] = "SpawnFailed"
        /\ loc[t].child # {}
        /\ loc[t].swept # {}
        /\ sessions # <<>>
        /\ \A id \in DOMAIN sessions : sessions[id].child \notin loc[t].child
        /\ DOMAIN relay = 1..counter
        /\ Len(ptyProcs) > counter

\* C16: a create call rejected with CapacityExceeded is rejected at its
\* capacity check, with MAX_PTY_SESSIONS or more un-expired sessions in the
\* table: it spawns no process, starts no reader thread, generates no id
\* and leaves every un-expired session as it is.
C16_CapacityExceededLeavesNoState ==
    [][\A t \in Threads :
          /\ (pc[t] = "spawn_pty" /\ pc'[t] = "idle")
             => (/\ ret'[t] = "CapacityExceeded"
                 /\ loc'[t].child = {}
                 /\ loc'[t].session_id = {}
                 /\ ptyProcs' = ptyProcs
                 /\ relay' = relay
                 /\ events' = events
                 /\ counter' = counter
                 /\ Cardinality(DOMAIN sessions') >= MAX_PTY_SESSIONS
                 /\ \A id \in DOMAIN sessions :
                       now - sessions[id].created_at < PTY_SESSION_TIMEOUT
                       => (id \in DOMAIN sessions' /\ sessions'[id] = sessions[id]))
          /\ (pc[t] # "idle" /\ pc'[t] = "idle" /\ ret'[t] = "CapacityExceeded")
             => pc[t] = "spawn_pty"]_vars

\* a create call has been rejected on a full table
C16_Witness ==
    \E t \in Threads :
        /\ pc[t] = "idle" /\ op[t] = "spawn_pty" /\ ret[t] = "CapacityExceeded"
        /\ Cardinality(DOMAIN sessions) >= MAX_PTY_SESSIONS
        /\ Len(ptyProcs) = counter
        /\ DOMAIN relay = 1..counter

----------------------------------------------------------------------------
(* Properties of the locks *)

\* C17: no thread holds the table lock or the sidecar lock while it spawns
\* a process (create, sidecar start) or waits for a child process (sidecar
\* start, sidecar stop, the window-destroyed hook).
C17_NoLockAcrossBlockingCall ==
    /\ \A t \in Threads :
          pc[t] \in {"sp_open", "start_spawn", "start_wait", "stop_wait"}
          => t \notin ptyLock \cup scLock
    /\ hookPc = "wait" => "hook" \notin scLock

\* C18: no thread, and not the window-destroyed hook, holds the table lock
\* and the sidecar lock at the same time; the holder of a lock is at a step
\* that needs no other lock to go on.
C18_OneLockAtATime ==
    /\ ptyLock \cap scLock = {}
    /\ \A t \in ptyLock : t \in Threads /\ pc[t] = "wr_io"
    /\ \A t \in scLock :
          \/ t \in Threads /\ pc[t] \in {"start_wait", "stop_wait"}
          \/ t = "hook" /\ hookPc = "wait"

\* the two locks are held at the same time, by different threads, while a
\* third party waits for one of them
C18_Witness ==
    /\ ptyLock # {}
    /\ scLock # {}
    /\ hookPc = "lock"

----------------------------------------------------------------------------
(* Properties of the insertion of a session *)

\* C19: when a create call inserts its session into the table, the process
\* of the session still runs and the exit notification of the session has
\* not been emitted.
C19_AliveAtInsertion ==
    [][\A t \in Threads :
          (pc[t] = "sp_store" /\ pc'[t] = "idle")
          => \A id \in loc[t].session_id, c \in loc[t].child :
                /\ ptyProcs[c] = "running"
                /\ Exits(events[id]) = {}]_vars

\* C20: no notification of a session is emitted before the session is
\* inserted into the table: while the create call that generated an id has
\* not stored it yet, the session has no notifications.
C20_NoNotificationBeforeInsertion ==
    \A t \in Threads :
        pc[t] = "sp_store"
        => \A id \in loc[t].session_id : events[id] = <<>>

----------------------------------------------------------------------------
(* Properties of the table lock *)

\* C21: a create call does not hold the table lock in its spawn step, which
\* neither needs the lock nor touches the table: while a create is there and
\* no write is in progress, the lock-taking steps of the other threads can
\* be taken. Every other step of a table command takes the free lock, a
\* write holds it until it returns, and the table and the id counter change
\* only in such steps.
C21_SpawnOutsideLock ==
    [][\A t \in Threads :
          /\ pc'[t] = "sp_open" => t \notin ptyLock'
          /\ (pc[t] = "sp_open" /\ pc'[t] # "sp_open")
             => (ptyLock' = ptyLock /\ sessions' = sessions /\ counter' = counter)
          /\ (pc[t] = "sp_open" /\ \A v \in Threads : pc[v] # "wr_io")
             => \A u \in Threads :
                   /\ pc[u] = "write_pty" => ENABLED write_pty_lookup(u)
                   /\ pc[u] = "resize_pty" => ENABLED resize_pty(u)
                   /\ pc[u] = "kill_pty" => ENABLED kill_pty(u)
                   /\ pc[u] = "spawn_pty" => ENABLED spawn_pty_check(u)
          /\ (/\ pc[t] \in {"spawn_pty", "sp_id", "sp_store", "write_pty",
                            "resize_pty", "kill_pty"}
              /\ pc'[t] # pc[t])
             => ptyLock = {}
          /\ (pc[t] = "wr_io" /\ pc'[t] # "wr_io") => (ptyLock = {t} /\ ptyLock' = {})
          /\ (sessions' # sessions \/ counter' # counter) => ptyLock = {}]_vars

\* while a create call is in its spawn step, another thread has taken the
\* lock and writes to a session
C21_Witness ==
    \E t, u \in Threads :
        /\ pc[t] = "sp_open"
        /\ pc[u] = "wr_io"
        /\ ptyLock = {u}
        /\ arg[u] \in DOMAIN sessions

\* C22: a write holds the table lock from its lookup to its return, and
\* its session stays in the table meanwhile: no kill and no sweep removes an
\* entry while a write is in progress. A write or resize that returns Ok or
\* IOError found its session in the table and leaves it there; one that
\* does not find it returns NotFound without using a session.
C22_NoUseOutsideLock ==
    [][\A t \in Threads :
          /\ pc'[t] = "wr_io" => (ptyLock' = {t} /\ arg'[t] \in DOMAIN sessions')
          /\ pc[t] = "wr_io" => sessions' = sessions
          /\ (/\ pc[t] \in {"write_pty", "wr_io", "resize_pty"}
              /\ pc'[t] = "idle"
              /\ ret'[t] \in {"Ok", "IOError"})
             => (arg[t] \in DOMAIN sessions /\ arg[t] \in DOMAIN sessions')
          /\ (/\ pc[t] \in {"write_pty", "resize_pty"}
              /\ pc'[t] # pc[t]
              /\ arg[t] \notin DOMAIN sessions)
             => (pc'[t] = "idle" /\ ret'[t] = "NotFound")]_vars

\* a write to an expired session is in progress while a create call waits
\* to run its sweep and a kill of the same session has been invoked
C22_Witness ==
    \E t \in Threads :
        /\ pc[t] = "wr_io"
        /\ now - sessions[arg[t]].created_at >= PTY_SESSION_TIMEOUT
        /\ \E u \in Threads : pc[u] \in {"spawn_pty", "kill_pty"}

----------------------------------------------------------------------------
(* Frame properties of write, resize and kill *)

\* C26: write_pty and resize_pty return Ok, NotFound or IOError and leave
\* the table (the set of ids and every session's created_at) and the id
\* counter as they are, also when they fail with IOError.
C26_WriteResizeKeepTable ==
    [][\A t \in Threads :
          (pc[t] \in {"write_pty", "wr_io", "resize_pty"} /\ pc'[t] # pc[t])
          => (/\ sessions' = sessions
              /\ counter' = counter
              /\ pc'[t] \in {"wr_io", "idle"}
              /\ pc'[t] = "idle" => ret'[t] \in {"Ok", "NotFound", "IOError"})]_vars

\* a write and a resize have failed with IOError and their session is in
\* the table
C26_Witness ==
    \E t, u \in Threads :
        /\ pc[t] = "idle" /\ op[t] = "write_pty" /\ ret[t] = "IOError"
        /\ pc[u] = "idle" /\ op[u] = "resize_pty" /\ ret[u] = "IOError"
        /\ arg[t] \in DOMAIN sessions
        /\ arg[u] \in DOMAIN sessions

\* C27: kill_pty on an id that is in the table returns Ok and removes that
\* entry and no other: every other session and the id counter are as
\* before; a kill of an id that was killed before returns NotFound.
C27_KillRemovesExactlyOne ==
    [][\A t \in Threads :
          (pc[t] = "kill_pty" /\ pc'[t] # pc[t])
          => /\ pc'[t] = "idle"
             /\ counter' = counter
             /\ arg[t] \in DOMAIN sessions
                => (/\ ret'[t] = "Ok"
                    /\ DOMAIN sessions' = DOMAIN sessions \ {arg[t]}
                    /\ \A id \in DOMAIN sessions' : sessions'[id] = sessions[id])
             /\ arg[t] \in killed => ret'[t] = "NotFound"]_vars

\* a kill has returned Ok, a later kill of the same id has returned
\* NotFound, and another session is in the table
C27_Witness ==
    \E t, u \in Threads :
        /\ pc[t] = "idle" /\ op[t] = "kill_pty" /\ ret[t] = "Ok"
        /\ pc[u] = "idle" /\ op[u] = "kill_pty" /\ ret[u] = "NotFound"
        /\ arg[u] = arg[t]
        /\ loc[u].after_kill
        /\ sessions # <<>>

\* C29: a session leaves the table only through the sweep of a create call,
\* at an age at or above PTY_SESSION_TIMEOUT, or through a kill_pty of its
\* id: the clock, write_pty and resize_pty remove nothing, and a write or
\* resize of a session that is in the table, whatever its age, is not
\* answered NotFound.
C29_AgeEnforcedOnlyByCreate ==
    [][/\ \A id \in DOMAIN sessions \ DOMAIN sessions' :
             \/ \E t \in Threads :
                   /\ pc[t] = "spawn_pty" /\ pc'[t] # "spawn_pty"
                   /\ now - sessions[id].created_at >= PTY_SESSION_TIMEOUT
             \/ \E t \in Threads :
                   /\ pc[t] = "kill_pty" /\ pc'[t] = "idle"
                   /\ arg[t] = id /\ ret'[t] = "Ok"
       /\ \A t \in Threads :
             (/\ pc[t] \in {"write_pty", "resize_pty"}
              /\ pc'[t] # pc[t]
              /\ arg[t] \in DOMAIN sessions)
             => (pc'[t] = "wr_io" \/ ret'[t] \in {"Ok", "IOError"})]_vars

\* a session of the timeout's age is in the table, a resize of it has
\* returned Ok and a write to it is in progress
C29_Witness ==
    \E t, u \in Threads :
        /\ pc[t] = "wr_io"
        /\ pc[u] = "idle" /\ op[u] = "resize_pty" /\ ret[u] = "Ok"
        /\ arg[u] = arg[t]
        /\ now - sessions[arg[t]].created_at >= PTY_SESSION_TIMEOUT

----------------------------------------------------------------------------
(* Properties of the reader threads *)

\* C23: the output notifications of a session are the chunks its reader
\* thread has read, one notification per chunk, in the order of the reads;
\* the notifications of different sessions are not ordered with respect to
\* each other.
C23_OutputInReadOrder ==
    \A id \in DOMAIN events :
        /\ \A i \in 1..Len(events[id]) : events[id][i] # 0 => events[id][i] = i
        /\ Len(events[id]) - Cardinality(Exits(events[id]))
             = IF relay[id].pc = "emit_output"
                 THEN relay[id].chunk - 1
                 ELSE relay[id].chunk

\* the second session has had two chunks and its exit notified, in this
\* order, before anything was notified for the first session
C23_Witness ==
    /\ {1, 2} \subseteq DOMAIN events
    /\ events[1] = <<>>
    /\ Len(events[2]) > 2
    /\ events[2][1] = 1
    /\ events[2][2] = 2
    /\ events[2][Len(events[2])] = 0

\* C24: a step of a reader thread (a read, a notification, its end) leaves
\* the table, the id counter and the table lock as they are; a session
\* leaves the table only in a step of kill_pty or of the sweep of a create
\* call, not because its reader thread has ended.
C24_RelayLeavesTable ==
    [][/\ (relay' # relay \/ events' # events)
          => (sessions' = sessions /\ counter' = counter /\ ptyLock' = ptyLock)
       /\ \A id \in DOMAIN sessions \ DOMAIN sessions' :
             \E t \in Threads :
                /\ pc[t] \in {"kill_pty", "spawn_pty"}
                /\ pc'[t] # pc[t]]_vars

\* the process of a session has exited and its reader thread has notified
\* the exit and ended, and the session is in the table
C24_Witness ==
    \E id \in DOMAIN sessions :
        /\ ptyProcs[sessions[id].child] = "exited"
        /\ relay[id].pc = "done"
        /\ Exits(events[id]) # {}

\* C25: the reader thread does not consult the table: a chunk read for a
\* session that was killed and is not in the table is notified like any
\* other, so an output notification can follow the return of kill_pty.
C25_OutputAfterKill ==
    [][\A id \in DOMAIN relay :
          (/\ relay[id].pc = "emit_output"
           /\ relay'[id].pc # "emit_output"
           /\ id \in killed
           /\ id \notin DOMAIN sessions)
          => events'[id] = Append(events[id], relay[id].chunk)]_vars

\* kill_pty has returned Ok, the session is not in the table, and an
\* output notification of the session was emitted after the kill
C25_Witness ==
    \E t \in Threads :
        /\ pc[t] = "idle" /\ op[t] = "kill_pty" /\ ret[t] = "Ok"
        /\ arg[t] \notin DOMAIN sessions
        /\ Len(events[arg[t]]) > loc[t].emitted
        /\ events[arg[t]][loc[t].emitted + 1] > 0

----------------------------------------------------------------------------
(* More properties of the sidecar controller and the hook *)

\* C28: a start that finds the tracked child exited clears the state and
\* goes on to spawn, also on the port the child was tracked with; a start
\* returns without spawning only when the tracked child runs on the
\* requested port; the spawn creates a new process, and on success the
\* state is Running with that process and the requested port.
C28_ExitedChildIsRespawned ==
    [][\A t \in Threads :
          /\ (/\ pc[t] = "start"
              /\ pc'[t] # "start"
              /\ server_state.process # {}
              /\ ~TrackedRunning)
             => (/\ pc'[t] = "start_spawn"
                 /\ server_state' = Absent
                 /\ loc'[t].polled \in {{"Some"}, {"Err"}}
                 /\ Len(scProcs') = Len(scProcs))
          /\ (pc[t] = "start" /\ pc'[t] = "idle")
             => (TrackedRunning /\ server_state.port = {arg[t]})
          /\ (pc[t] = "start_spawn" /\ pc'[t] = "start_store")
             => (/\ loc'[t].child = {Len(scProcs) + 1}
                 /\ Len(scProcs') = Len(scProcs) + 1
                 /\ scProcs'[Len(scProcs) + 1] = "running")
          /\ (pc[t] = "start_store" /\ pc'[t] # "start_store")
             => (/\ pc'[t] = "idle"
                 /\ ret'[t] = "Ok"
                 /\ server_state' = [process |-> loc[t].child, port |-> {arg[t]}])]_vars

\* a start on the port of the first child, which it found exited, has
\* spawned a second child and tracks it on that port
C28_Witness ==
    \E t, u \in Threads :
        /\ pc[t] = "idle" /\ op[t] = "start" /\ ret[t] = "Ok"
        /\ loc[t].polled \in {{"Some"}, {"Err"}}
        /\ loc[t].child = {2}
        /\ pc[u] = "idle" /\ op[u] = "start" /\ ret[u] = "Ok"
        /\ loc[u].child = {1}
        /\ arg[u] = arg[t]
        /\ scProcs[2] = "running"
        /\ server_state = [process |-> {2}, port |-> {arg[t]}]

\* C30: the window-destroyed hook takes the sidecar lock, kills the tracked
\* child and waits for it, and leaves the state Absent; when the state is
\* Absent it changes nothing, as when it runs again; no step of the hook
\* changes the session table, the id counter, the table lock, a pty process
\* or a reader thread.
C30_HookActsOnSidecarOnly ==
    [][/\ hookPc' # hookPc
          => (/\ sessions' = sessions
              /\ counter' = counter
              /\ ptyLock' = ptyLock
              /\ ptyProcs' = ptyProcs
              /\ relay' = relay
              /\ events' = events)
       /\ (hookPc = "lock" /\ hookPc' # "lock")
          => /\ scLock = {}
             /\ IF server_state.process = {}
                  THEN /\ hookPc' = "done"
                       /\ server_state' = server_state
                       /\ scProcs' = scProcs
                       /\ scLock' = {}
                  ELSE /\ hookPc' = "wait"
                       /\ scLock' = {"hook"}
                       /\ \A p \in server_state.process : scProcs'[p] # "running"
       /\ (hookPc # "done" /\ hookPc' = "done")
          => (/\ server_state' = Absent
              /\ scLock' = {}
              /\ \A p \in server_state.process : scProcs'[p] = "reaped")]_vars

\* the hook has killed and reaped the tracked child, which ran when the
\* last command returned, and has left the state Absent; the pty sessions
\* are in the table and their processes run
C30_Witness ==
    \E t, u \in Threads :
        /\ hookPc = "done"
        /\ server_state = Absent
        /\ scProcs = <<"reaped">>
        /\ pc[t] = "idle" /\ op[t] = "start" /\ ret[t] = "Ok"
        /\ loc[t].child = {1}
        /\ pc[u] = "idle" /\ op[u] = "start" /\ ret[u] = "Ok"
        /\ loc[u].child = {}
        /\ sessions # <<>>
        /\ \A id \in DOMAIN sessions : ptyProcs[sessions[id].child] = "running"

----------------------------------------------------------------------------
(* Independence of the reader threads *)

\* C31: a reader thread that has not terminated can always take its next
\* step (a read, an output notification, the exit notification), whatever
\* the other reader threads are doing and whoever holds the table lock: no
\* step of a reader thread waits for the lock or for another reader thread.
C31_RelaysIndependent ==
    \A id \in DOMAIN relay :
        /\ relay[id].pc = "read" => ENABLED relay_read(id)
        /\ relay[id].pc = "emit_output" => ENABLED relay_emit_output(id)
        /\ relay[id].pc = "emit_exit" => ENABLED relay_emit_exit(id)

\* a write holds the table lock and a create waits for it, the reader thread
\* of the first session has read nothing, and the reader thread of another
\* session has notified a chunk and read the next
C31_Witness ==
    \E t, u \in Threads : \E id \in DOMAIN relay :
        /\ pc[t] = "wr_io" /\ ptyLock = {t}
        /\ pc[u] = "sp_store"
        /\ id # 1
        /\ relay[1].pc = "read" /\ relay[1].chunk = 0 /\ events[1] = <<>>
        /\ relay[id].pc = "emit_output"
        /\ Len(events[id]) > 0

----------------------------------------------------------------------------
(* Ownership of the pty processes *)

\* the create calls that hold a spawned child they have not stored yet
Creating == {t \in Threads : pc[t] \in {"sp_id", "sp_reader", "sp_store"}}

\* C32: no two sessions of the table hold the same process, and the child a
\* create call has spawned and not yet stored is held by no session and by
\* no other create call; the store of a create adds exactly one session,
\* which holds that child.
C32_OneEntryPerProcess ==
    /\ \A i, j \in DOMAIN sessions :
          i # j => sessions[i].child # sessions[j].child
    /\ \A t \in Creating : \A c \in loc[t].child :
          /\ \A i \in DOMAIN sessions : sessions[i].child # c
          /\ \A u \in Creating \ {t} : c \notin loc[u].child
    /\ \A t \in Threads :
          (pc[t] = "idle" /\ op[t] = "spawn_pty" /\ ret[t] = "Ok")
          => \A id \in loc[t].session_id :
                id \in DOMAIN sessions => {sessions[id].child} = loc[t].child

\* two sessions are in the table, created by calls that succeeded, while
\* another create call holds a third child it has not stored yet
C32_Witness ==
    /\ Cardinality(DOMAIN sessions) = 2
    /\ \E t, u \in Threads :
          /\ pc[t] = "sp_store"
          /\ pc[u] = "idle" /\ op[u] = "spawn_pty" /\ ret[u] = "Ok"
          /\ loc[u].session_id \subseteq DOMAIN sessions

----------------------------------------------------------------------------
(* Sessions whose process has exited *)

\* C33: the end of a process removes no session; a session leaves the table
\* only through kill_pty on its id or the sweep of a create call; and a
\* create call that finds MAX_PTY_SESSIONS unexpired sessions is rejected
\* with CapacityExceeded and leaves them in the table, also when all their
\* processes have exited.
C33_ExitedSessionKeepsSlot ==
    [][/\ ptyProcs' # ptyProcs => DOMAIN sessions \subseteq DOMAIN sessions'
       /\ \A id \in DOMAIN sessions \ DOMAIN sessions' :
             \E t \in Threads :
                 \/ pc[t] = "kill_pty" /\ arg[t] = id /\ ret'[t] = "Ok"
                 \/ /\ pc[t] = "spawn_pty"
                    /\ pc'[t] # "spawn_pty"
                    /\ now - sessions[id].created_at >= PTY_SESSION_TIMEOUT
       /\ \A t \in Threads :
             (/\ pc[t] = "spawn_pty"
              /\ pc'[t] # "spawn_pty"
              /\ Cardinality(DOMAIN cleanup_expired_sessions(sessions, now))
                     = MAX_PTY_SESSIONS)
             => (/\ pc'[t] = "idle"
                 /\ ret'[t] = "CapacityExceeded"
                 /\ sessions' = cleanup_expired_sessions(sessions, now))]_vars

\* a create call has been rejected with CapacityExceeded while the
\* processes of all sessions had exited, and the table still holds the
\* MAX_PTY_SESSIONS sessions
C33_Witness ==
    \E t \in Threads :
        /\ pc[t] = "idle" /\ op[t] = "spawn_pty" /\ ret[t] = "CapacityExceeded"
        /\ loc[t].all_exited
        /\ Cardinality(DOMAIN sessions) = MAX_PTY_SESSIONS
        /\ \A id \in DOMAIN sessions : ptyProcs[sessions[id].child] = "exited"

----------------------------------------------------------------------------
(* Failures of the sidecar start *)

\* C34: when a start call that killed the tracked child for a port change
\* fails to spawn, it returns SpawnFailed, the old process is reaped and not
\* restored, and the state is Absent: process and port are both absent.
C34_FailedRespawnLeavesAbsent ==
    [][\A t \in Threads :
          (pc[t] = "start_spawn" /\ pc'[t] = "idle" /\ loc[t].old # {})
          => (/\ ret'[t] = "SpawnFailed"
              /\ \A p \in loc[t].old : scProcs'[p] = "reaped"
              /\ server_state' = Absent)]_vars

----------------------------------------------------------------------------
(* The id counter *)

\* C35: the id counter never decreases; it advances by exactly one in the
\* id step of a create call and is left unchanged by every other step (a
\* create that fails before its id step, a sweep, write, resize, kill); and
\* every id in the table is between 1 and the counter.
C35_CounterCountsCreates ==
    /\ [](\A id \in DOMAIN sessions : 1 <= id /\ id <= counter)
    /\ [][/\ counter' >= counter
          /\ IF \E t \in Threads : pc[t] = "sp_id" /\ pc'[t] # "sp_id"
               THEN counter' = counter + 1
               ELSE counter' = counter]_vars

\* two ids were generated; since then a create has failed, a kill has
\* removed a session and a write or resize has returned, and the counter
\* stands at 2 above a table of one session
C35_Witness ==
    /\ counter = 2
    /\ DOMAIN sessions = {2}
    /\ killed = {1}
    /\ \E t, u \in Threads :
          /\ pc[t] = "idle" /\ op[t] = "spawn_pty" /\ ret[t] = "SpawnFailed"
          /\ pc[u] = "idle" /\ op[u] \in {"write_pty", "resize_pty"}
          /\ ret[u] = "NotFound" /\ loc[u].after_kill

\* C36: when the poll of the tracked child returns an error, start and
\* is_opencode_server_managed clear process and port to Absent, without
\* killing or waiting for the process and without keeping the lock;
\* is_opencode_server_managed then returns false and start goes on to its
\* spawn.
C36_PollErrorClearsWithoutKill ==
    [][\A t \in Threads :
          (/\ pc[t] \in {"start", "is_managed"}
           /\ pc'[t] # pc[t]
           /\ loc'[t].polled = {"Err"})
          => (/\ server_state' = Absent
              /\ scProcs' = scProcs
              /\ scLock' = {}
              /\ pc[t] = "is_managed" => (pc'[t] = "idle" /\ ret'[t] = "false")
              /\ pc[t] = "start" => pc'[t] = "start_spawn")]_vars

\* a start whose poll failed has spawned and stored a new child, then
\* is_opencode_server_managed has returned false on a poll that failed; neither process
\* was waited for
C36_Witness ==
    \E t, u \in Threads :
        /\ pc[t] = "idle" /\ op[t] = "start" /\ ret[t] = "Ok"
        /\ loc[t].polled = {"Err"}
        /\ loc[t].child = {2}
        /\ pc[u] = "idle" /\ op[u] = "is_managed" /\ ret[u] = "false"
        /\ loc[u].polled = {"Err"}
        /\ loc[u].old = {2}
        /\ scProcs = <<"exited", "exited">>
        /\ server_state = Absent


====
